---- MODULE Spec2Model ----
(***************************************************************************)
(* Model of the e6502r emulator stub (src/src/main.rs): the Cpu and Memory *)
(* structs, reset_cpu, the stack helpers, the three opcode handlers, the   *)
(* 256-entry dispatch table and the run loop of main.                      *)
(*                                                                         *)
(* Rust integer arithmetic on u8/u16 (`+=`, `-=`) depends on the build:    *)
(* with overflow checks (the default of a debug build) an overflow panics  *)
(* and ends the process, without them (the default of a release build) the *)
(* value wraps.  overflow_checks is fixed at start-up and both builds are  *)
(* explored.                                                               *)
(***************************************************************************)
EXTENDS Integers, FiniteSets, Sequences, TLC

VARIABLES cpu,             \* the Cpu struct: pc, sp, ac, xr, yr, st
          mem,             \* the Memory struct, as the map of its non-zero bytes
          accessed,        \* <<kind, index>> of every mem.mem[...] of the last operation
          panicked,        \* the process has panicked (overflow or index check)
          op,              \* the operation executed last
          overflow_checks, \* the build traps integer overflow
          resets,          \* number of reset_cpu calls so far
          arg,             \* stack harness: the byte handed to push_to_stack
          ret,             \* stack harness: the byte pull_from_stack returned
          steps,           \* number of loop iterations (or harness calls) so far
          out              \* the trace line printed last: <<pc, mnemonic>>, or <<>>

vars == <<cpu, mem, accessed, panicked, op, overflow_checks, resets, arg, ret, steps, out>>

----------------------------------------------------------------------------
(* Program constants *)

MEMSIZE == 65536
RESET_VECTOR_LOBYTE == 65532
RESET_VECTOR_HIBYTE == 65533
BREAK_VECTOR_LOBYTE == 65534
BREAK_VECTOR_HIBYTE == 65535
STATUS_BIT_INT_DIS == 4
STATUS_FLAGS_BREAK == 16
STATUS_FLAGS_UNUSED == 32
stack_base == 256

(* Bounds of the exploration *)

MaxResets == 2
MaxSteps == 4
MaxCalls == 2

Byte == 0..255
Word == 0..65535

----------------------------------------------------------------------------
(* Bit operations on unsigned integers *)

RECURSIVE BitOr(_, _)
BitOr(a, b) ==
    IF a = 0 THEN b
    ELSE IF b = 0 THEN a
    ELSE (IF (a % 2 = 1) \/ (b % 2 = 1) THEN 1 ELSE 0) + 2 * BitOr(a \div 2, b \div 2)

RECURSIVE BitAnd(_, _)
BitAnd(a, b) ==
    IF a = 0 \/ b = 0 THEN 0
    ELSE (IF (a % 2 = 1) /\ (b % 2 = 1) THEN 1 ELSE 0) + 2 * BitAnd(a \div 2, b \div 2)

\* `x as u8`
AsU8(x) == x % 256

----------------------------------------------------------------------------
(* The machine: the pair (cpu, mem) a function works on, with the record   *)
(* of its memory accesses and of a panic.  A panicked machine executes no  *)
(* further statement.                                                      *)

Machine(c, m) ==
    [cpu |-> c, mem |-> m, accessed |-> {}, panicked |-> FALSE, op |-> "", out |-> <<>>]

Panic(m) == [m EXCEPT !.panicked = TRUE]

\* mem.mem[a] as an rvalue; Vec indexing panics outside 0..len-1
MemIndex(m, kind, a) ==
    [m EXCEPT !.accessed = @ \cup {<<kind, a>>},
              !.panicked = @ \/ (a \notin 0..(MEMSIZE - 1))]

\* the byte stored at address a of a memory
ByteAt(f, a) == IF a \in DOMAIN f THEN f[a] ELSE 0

MemGet(m, a) == ByteAt(m.mem, a)

MemPut(f, a, b) ==
    IF b = 0 THEN [x \in (DOMAIN f) \ {a} |-> f[x]]
    ELSE [x \in (DOMAIN f) \cup {a} |-> IF x = a THEN b ELSE f[x]]

\* mem.mem[a] = b
MemSet(m, kind, a, b) ==
    LET m1 == MemIndex(m, kind, a)
    IN  IF m1.panicked THEN m1 ELSE [m1 EXCEPT !.mem = MemPut(@, a, b)]

\* x + n on a w-bit unsigned field: wraps, or panics under overflow checks
Overflows(x, n, modulus) == (x + n > modulus - 1) \/ (x + n < 0)

\* byte_to_word with the two bytes taken in the wrong order
byte_to_word_swapped(lobyte, hibyte) == BitOr((lobyte * 256) % 65536, hibyte)

\* convert two bytes (hi and lo) to a word
byte_to_word(lobyte, hibyte) == BitOr((hibyte * 256) % 65536, lobyte)

----------------------------------------------------------------------------
(* reset cpu: stack pointer 0xff, program counter from the reset vector,   *)
(* unused bit set on the status flags                                      *)

\* reset_cpu that assigns the unused bit to the status register instead of
\* OR-ing it in
reset_cpu_clears_flags(m) ==
    LET m1 == [m EXCEPT !.cpu.sp = 255]
        m2 == MemIndex(m1, "vector", RESET_VECTOR_LOBYTE)
        m3 == IF m2.panicked THEN m2 ELSE MemIndex(m2, "vector", RESET_VECTOR_HIBYTE)
    IN  IF m3.panicked THEN m3
        ELSE [m3 EXCEPT !.cpu.pc = LET lo == MemGet(m3, RESET_VECTOR_LOBYTE)
                                       hi == MemGet(m3, RESET_VECTOR_HIBYTE)
                                   IN  BitOr((hi * 256) % 65536, lo),
                        !.cpu.st = STATUS_FLAGS_UNUSED]

\* reset_cpu without the statement that sets the unused bit
reset_cpu_no_unused(m) ==
    LET m1 == [m EXCEPT !.cpu.sp = 255]
        m2 == MemIndex(m1, "vector", RESET_VECTOR_LOBYTE)
        m3 == IF m2.panicked THEN m2 ELSE MemIndex(m2, "vector", RESET_VECTOR_HIBYTE)
    IN  IF m3.panicked THEN m3
        ELSE [m3 EXCEPT !.cpu.pc = byte_to_word(MemGet(m3, RESET_VECTOR_LOBYTE),
                                                MemGet(m3, RESET_VECTOR_HIBYTE))]

reset_cpu(m) ==
    LET m1 == [m EXCEPT !.cpu.sp = 255]
        m2 == MemIndex(m1, "vector", RESET_VECTOR_LOBYTE)
        m3 == IF m2.panicked THEN m2 ELSE MemIndex(m2, "vector", RESET_VECTOR_HIBYTE)
    IN  IF m3.panicked THEN m3
        ELSE [m3 EXCEPT !.cpu.pc = byte_to_word(MemGet(m3, RESET_VECTOR_LOBYTE),
                                                MemGet(m3, RESET_VECTOR_HIBYTE)),
                        !.cpu.st = BitOr(m3.cpu.st, STATUS_FLAGS_UNUSED)]

\* memloc without the stack base: the stack in page zero
StackLoc_no_base(sp) == sp

\* memloc with a stack base of 0x1000 in place of 0x0100
StackLoc_wrong_base(sp) == stack_base * 16 + sp

\* memloc of both stack helpers: stack_base + cpu.sp as usize
StackLoc(sp) == stack_base + sp

\* cpu.sp -= 1
DecSp(m) ==
    IF Overflows(m.cpu.sp, -1, 256)
    THEN IF overflow_checks THEN Panic(m) ELSE [m EXCEPT !.cpu.sp = (@ - 1) % 256]
    ELSE [m EXCEPT !.cpu.sp = @ - 1]

\* cpu.sp += 1
IncSp(m) ==
    IF Overflows(m.cpu.sp, 1, 256)
    THEN IF overflow_checks THEN Panic(m) ELSE [m EXCEPT !.cpu.sp = (@ + 1) % 256]
    ELSE [m EXCEPT !.cpu.sp = @ + 1]

\* cpu.pc += n
AddPc(m, n) ==
    IF Overflows(m.cpu.pc, n, 65536)
    THEN IF overflow_checks THEN Panic(m) ELSE [m EXCEPT !.cpu.pc = (@ + n) % 65536]
    ELSE [m EXCEPT !.cpu.pc = @ + n]

\* pushes a u8 to the stack
push_to_stack(b, m) ==
    LET memloc == StackLoc(m.cpu.sp)
        m1 == MemSet(m, "stack", memloc, b)
    IN  IF m1.panicked THEN m1 ELSE DecSp(m1)

\* pulls a u8 from the stack: the machine after the call and the byte returned
pull_from_stack(m) ==
    LET m1 == IncSp(m)
        memloc == StackLoc(m1.cpu.sp)
        m2 == IF m1.panicked THEN m1 ELSE MemIndex(m1, "stack", memloc)
    IN  [m |-> m2, value |-> IF m2.panicked THEN 0 ELSE MemGet(m2, memloc)]

----------------------------------------------------------------------------
(* Opcode handlers *)

\* a placeholder that consumes the opcode byte, as NOP does
ixx_skips(m) == [m EXCEPT !.cpu.pc = (@ + 1) % 65536]

\* for unused op codes just do nothing
ixx(m) == m

\* the statements of i00, each skipped once the process has panicked
\* cpu.st |= STATUS_FLAGS_BREAK|STATUS_FLAGS_UNUSED
i00_set_break(m) ==
    [m EXCEPT !.cpu.st = BitOr(@, BitOr(STATUS_FLAGS_BREAK, STATUS_FLAGS_UNUSED))]

\* push_to_stack((cpu.pc >> 8) as u8, cpu, mem)
i00_push_pch(m) ==
    IF m.panicked THEN m ELSE push_to_stack(AsU8(m.cpu.pc \div 256), m)

\* push_to_stack((cpu.pc & 0xff) as u8, cpu, mem)
i00_push_pcl(m) ==
    IF m.panicked THEN m ELSE push_to_stack(AsU8(BitAnd(m.cpu.pc, 255)), m)

\* push_to_stack(cpu.st, cpu, mem)
i00_push_st(m) ==
    IF m.panicked THEN m ELSE push_to_stack(m.cpu.st, m)

\* cpu.st |= STATUS_BIT_INT_DIS
i00_set_int_dis(m) ==
    IF m.panicked THEN m ELSE [m EXCEPT !.cpu.st = BitOr(@, STATUS_BIT_INT_DIS)]

\* cpu.pc = mem.mem[BREAK_VECTOR_LOBYTE] as u16 + ((mem.mem[BREAK_VECTOR_HIBYTE] as u16) << 8)
i00_load_vector(m) ==
    IF m.panicked THEN m
    ELSE LET lo == MemIndex(m, "vector", BREAK_VECTOR_LOBYTE)
             hi == IF lo.panicked THEN lo ELSE MemIndex(lo, "vector", BREAK_VECTOR_HIBYTE)
         IN  IF hi.panicked THEN hi
             ELSE [hi EXCEPT !.cpu.pc = MemGet(hi, BREAK_VECTOR_LOBYTE)
                                        + ((MemGet(hi, BREAK_VECTOR_HIBYTE) * 256) % 65536)]

\* BRK (00)
i00(m) ==
    i00_load_vector(i00_set_int_dis(i00_push_st(i00_push_pcl(i00_push_pch(
        AddPc(i00_set_break(m), 2))))))

\* NOP (EA)
iea(m) == AddPc(m, 1)

\* op code array: the name of the handler of each opcode
CPU_OPS(opcode) ==
    IF opcode = 0 THEN "i00" ELSE IF opcode = 234 THEN "iea" ELSE "ixx"

\* opcode_handler(&mut cpu, &mut mem)
Call(handler, m) ==
    IF handler = "i00" THEN i00(m) ELSE IF handler = "iea" THEN iea(m) ELSE ixx(m)

----------------------------------------------------------------------------
(* main: construction, the loader's stores, reset, the run loop *)

\* the Cpu literal of main
NewCpu == [pc |-> 0, sp |-> 0, ac |-> 0, xr |-> 0, yr |-> 0, st |-> 0]

\* vec![0; MEMSIZE] followed by init_memory: every byte zero
init_memory == [x \in {} |-> 0]

\* The memory images explored: the bytes the loader may store at each
\* address before the first reset.  Every other byte stays zero.  The
\* image of main itself (0xfffc = 0x00, 0xfffd = 0x04, 0x0400 = 0xea) is
\* one of them.
LoadChoices ==
    [a \in {1024, 1280, 65532, 65533, 65534, 65535} |->
        CASE a = 1024  -> {0, 234, 2}
          [] a = 1280  -> {0, 234, 2}
          [] a = 65532 -> {0, 254, 255}
          [] a = 65533 -> {4, 255}
          [] a = 65534 -> {0, 234}
          [] a = 65535 -> {0, 5, 234}]

\* mem.mem[a] = img[a] for every address of the image
LoadImage(f, img) ==
    [a \in ((DOMAIN f) \cup {x \in DOMAIN img : img[x] # 0})
             \ {x \in DOMAIN img : img[x] = 0} |->
        IF a \in DOMAIN img THEN img[a] ELSE f[a]]

Images ==
    { [a \in DOMAIN LoadChoices |->
         CASE a = 1024  -> t[1]
           [] a = 1280  -> t[2]
           [] a = 65532 -> t[3]
           [] a = 65533 -> t[4]
           [] a = 65534 -> t[5]
           [] a = 65535 -> t[6]] :
      t \in LoadChoices[1024] \X LoadChoices[1280] \X LoadChoices[65532]
            \X LoadChoices[65533] \X LoadChoices[65534] \X LoadChoices[65535] }

Init ==
    /\ cpu = NewCpu
    /\ \E img \in Images : mem = LoadImage(init_memory, img)
    /\ accessed = {}
    /\ panicked = FALSE
    /\ op = "load"
    /\ overflow_checks \in BOOLEAN
    /\ resets = 0
    /\ arg = 0
    /\ ret = 0
    /\ steps = 0
    /\ out = <<>>

\* reset_cpu(&mut cpu, &mem): the call of main before the loop, and any
\* later reset
Reset ==
    /\ ~panicked
    /\ resets < MaxResets
    /\ LET m == reset_cpu(Machine(cpu, mem))
       IN  /\ cpu' = m.cpu
           /\ mem' = m.mem
           /\ accessed' = m.accessed
           /\ panicked' = m.panicked
    /\ op' = "reset_cpu"
    /\ resets' = resets + 1
    /\ UNCHANGED <<overflow_checks, arg, ret, steps, out>>

\* the switches of main
pause_on_exec_instr == 1
print_output == 1

\* instruction text by opcode (INSTRUCTION_TEXT[opcode + 1])
INSTRUCTION_TEXT ==
    <<
       "BRK", "ORA", "", "", "", "ORA", "ASL", "", "PHP", "ORA", "ASL", "", "", "ORA", "ASL", "",
       "BPL", "ORA", "", "", "", "ORA", "ASL", "", "CLC", "ORA", "", "", "", "ORA", "ASL", "",
       "JSR", "AND", "", "", "BIT", "AND", "ROL", "", "PLP", "AND", "ROL", "", "BIT", "AND", "ROL", "",
       "BMI", "AND", "", "", "", "AND", "ROL", "", "SEC", "AND", "", "", "", "AND", "ROL", "",
       "RTI", "EOR", "", "", "", "EOR", "LSR", "", "PHA", "EOR", "LSR", "", "JMP", "EOR", "LSR", "",
       "BVC", "EOR", "", "", "", "EOR", "LSR", "", "CLI", "EOR", "", "", "", "EOR", "LSR", "",
       "RTS", "ADC", "", "", "", "ADC", "ROR", "", "PLA", "ADC", "ROR", "", "JMP", "ADC", "ROR", "",
       "BVS", "ADC", "", "", "", "ADC", "ROR", "", "SEI", "ADC", "", "", "", "ADC", "ROR", "",
       "", "STA", "", "", "STY", "STA", "STX", "", "DEY", "", "TXA", "", "STY", "STA", "STX", "",
       "BCC", "STA", "", "", "STY", "STA", "STX", "", "TYA", "STA", "TXS", "", "", "STA", "", "",
       "LDY", "LDA", "LDX", "", "LDY", "LDA", "LDX", "", "TAY", "LDA", "TAX", "", "LDY", "LDA", "LDX", "",
       "BCS", "LDA", "", "", "LDY", "LDA", "LDX", "", "CLV", "LDA", "TSX", "", "LDY", "LDA", "LDX", "",
       "CPY", "CMP", "", "", "CPY", "CMP", "DEC", "", "INY", "CMP", "DEX", "", "CPY", "CMP", "DEC", "",
       "BNE", "CMP", "", "", "", "CMP", "DEC", "", "CLD", "CMP", "", "", "", "CMP", "DEC", "",
       "CPX", "SBC", "", "", "CPX", "SBC", "INC", "", "INX", "SBC", "NOP", "", "CPX", "SBC", "INC", "",
       "BEQ", "SBC", "", "", "", "SBX", "INC", "", "SED", "SBC", "", "", "", "SBX", "INC", ""
    >>

\* a trace that steps over the byte it has printed
TraceLine_consumes(m, print) ==
    IF print = 1
    THEN LET m1 == MemIndex(m, "trace", m.cpu.pc)
         IN  IF m1.panicked THEN m1
             ELSE [m1 EXCEPT !.out = <<m.cpu.pc, INSTRUCTION_TEXT[MemGet(m1, m.cpu.pc) + 1]>>,
                             !.cpu.pc = (@ + 1) % 65536]
    ELSE m

\* if print_output == 1 { print!("\t${:04x}\t{}", cpu.pc, INSTRUCTION_TEXT[instrloc]) }
TraceLine(m, print) ==
    IF print = 1
    THEN LET m1 == MemIndex(m, "trace", m.cpu.pc)
         IN  IF m1.panicked THEN m1
             ELSE [m1 EXCEPT !.out = <<m.cpu.pc, INSTRUCTION_TEXT[MemGet(m1, m.cpu.pc) + 1]>>]
    ELSE m

\* execute the opcode: fetch at pc, look the handler up in CPU_OPS, call it
Execute(m) ==
    IF m.panicked THEN m
    ELSE LET m0 == MemIndex(m, "fetch", m.cpu.pc)
             opcode_handler == CPU_OPS(MemGet(m0, m.cpu.pc))
         IN  IF m0.panicked THEN m0
             ELSE [Call(opcode_handler, m0) EXCEPT !.op = opcode_handler]

\* if pause_on_exec_instr == 1 { stdin.read_line(&mut user_input) }: the
\* line read and the result of the read are dropped
Pause(m, pause) == m

\* the body of the main loop under the two switches
LoopBody(m, print, pause) == Pause(Execute(TraceLine(m, print)), pause)

\* one iteration of the main loop: the trace line, the opcode fetch, the
\* dispatch through CPU_OPS, the pause
Iteration ==
    /\ ~panicked
    /\ resets > 0
    /\ LET m == LoopBody(Machine(cpu, mem), print_output, pause_on_exec_instr)
       IN  /\ cpu' = m.cpu
           /\ mem' = m.mem
           /\ accessed' = m.accessed
           /\ panicked' = m.panicked
           /\ op' = m.op
           /\ out' = m.out
    /\ UNCHANGED <<overflow_checks, resets, arg, ret>>

\* a single step of the engine, at most MaxSteps of them
Step ==
    /\ steps < MaxSteps
    /\ Iteration
    /\ steps' = steps + 1

Next == Reset \/ Step

Spec == Init /\ [][Next]_vars

----------------------------------------------------------------------------
(* Free run: main as written, one reset and then the loop without end, on  *)
(* the image of main, on the image of the force-break test, and on that    *)
(* image with an unimplemented opcode (0x02) at the break vector's target. *)

RunImages ==
    { [a \in {1024, 65532, 65533} |->
         CASE a = 1024 -> 234 [] a = 65532 -> 0 [] a = 65533 -> 4],
      [a \in {1024, 1280, 65532, 65533, 65534, 65535} |->
         CASE a = 1024 -> 0 [] a = 1280 -> 0 [] a = 65532 -> 0 [] a = 65533 -> 4
           [] a = 65534 -> 0 [] a = 65535 -> 5],
      [a \in {1024, 1280, 65532, 65533, 65534, 65535} |->
         CASE a = 1024 -> 0 [] a = 1280 -> 2 [] a = 65532 -> 0 [] a = 65533 -> 4
           [] a = 65534 -> 0 [] a = 65535 -> 5] }

InitRun ==
    /\ cpu = NewCpu
    /\ \E img \in RunImages : mem = LoadImage(init_memory, img)
    /\ accessed = {}
    /\ panicked = FALSE
    /\ op = "load"
    /\ overflow_checks \in BOOLEAN
    /\ resets = 0
    /\ arg = 0
    /\ ret = 0
    /\ steps = 0
    /\ out = <<>>

\* reset_cpu(&mut cpu, &mem) before the loop
Boot ==
    /\ op = "load"
    /\ resets = 0
    /\ Reset

\* loop { ... }
Loop ==
    /\ Iteration
    /\ UNCHANGED steps

NextRun == Boot \/ Loop

SpecRun == InitRun /\ [][NextRun]_vars

----------------------------------------------------------------------------
(* The stack helpers on their own: push_to_stack and pull_from_stack from  *)
(* every stack pointer value, on a stack page holding a few bytes.         *)

PushBytes == {0, 90, 255}

StackPages ==
    { init_memory,
      [a \in {256} |-> 165],
      [a \in {256, 511} |-> IF a = 256 THEN 17 ELSE 34] }

InitStack ==
    /\ \E s \in Byte : cpu = [NewCpu EXCEPT !.sp = s]
    /\ mem \in StackPages
    /\ accessed = {}
    /\ panicked = FALSE
    /\ op = "harness"
    /\ overflow_checks \in BOOLEAN
    /\ resets = 0
    /\ arg = 0
    /\ ret = 0
    /\ steps = 0
    /\ out = <<>>

HarnessReady ==
    /\ op \in {"harness", "push_to_stack", "pull_from_stack", "push_pull"}
    /\ ~panicked
    /\ steps < MaxCalls

\* push_to_stack(b, &mut cpu, &mut mem)
Push ==
    /\ HarnessReady
    /\ \E b \in PushBytes :
         LET m == push_to_stack(b, Machine(cpu, mem))
         IN  /\ cpu' = m.cpu
             /\ mem' = m.mem
             /\ accessed' = m.accessed
             /\ panicked' = m.panicked
             /\ arg' = b
    /\ op' = "push_to_stack"
    /\ steps' = steps + 1
    /\ UNCHANGED <<overflow_checks, resets, ret, out>>

\* let v = pull_from_stack(&mut cpu, &mem)
Pull ==
    /\ HarnessReady
    /\ LET r == pull_from_stack(Machine(cpu, mem))
       IN  /\ cpu' = r.m.cpu
           /\ mem' = r.m.mem
           /\ accessed' = r.m.accessed
           /\ panicked' = r.m.panicked
           /\ ret' = r.value
    /\ op' = "pull_from_stack"
    /\ steps' = steps + 1
    /\ UNCHANGED <<overflow_checks, resets, arg, out>>

\* push_to_stack(b, ...) immediately followed by pull_from_stack(...)
PushPull ==
    /\ HarnessReady
    /\ \E b \in PushBytes :
         LET m1 == push_to_stack(b, Machine(cpu, mem))
             r == IF m1.panicked THEN [m |-> m1, value |-> ret] ELSE pull_from_stack(m1)
         IN  /\ cpu' = r.m.cpu
             /\ mem' = r.m.mem
             /\ accessed' = r.m.accessed
             /\ panicked' = r.m.panicked
             /\ ret' = r.value
             /\ arg' = b
    /\ op' = "push_pull"
    /\ steps' = steps + 1
    /\ UNCHANGED <<overflow_checks, resets, out>>

NextStack == Push \/ Pull \/ PushPull

SpecStack == InitStack /\ [][NextStack]_vars

\* every operation of the program: the free run and the stack helpers
SpecAll == (InitRun \/ InitStack) /\ [][NextRun \/ NextStack]_vars

----------------------------------------------------------------------------
(* Properties *)

\* the word that two bytes form, low byte first
LittleEndian(lo, hi) == lo + 256 * hi

\* a step of the behaviour in which the handler h has just run
Ran(h) == op' = h /\ vars' # vars

\* C1: after every reset_cpu, the first one or a later one, from whatever
\* CPU state and memory it started in, the stack pointer is 0xFF, the
\* program counter is mem[0xFFFC] + 256 * mem[0xFFFD] and bit 0x20 of the
\* status register is set; reset-vector bytes (0x00, 0x04) give 0x0400.
C1_ResetEstablishes ==
    op = "reset_cpu" =>
        /\ ~panicked
        /\ cpu.sp = 255
        /\ cpu.pc = LittleEndian(ByteAt(mem, 65532), ByteAt(mem, 65533))
        /\ BitAnd(cpu.st, 32) = 32
        /\ (ByteAt(mem, 65532) = 0 /\ ByteAt(mem, 65533) = 4 => cpu.pc = 1024)

\* C1 witness: a second reset, after executed steps that moved the stack
\* pointer and the program counter, with reset vector bytes (0x00, 0x04)
C1_Witness ==
    /\ op = "reset_cpu"
    /\ resets = 2
    /\ steps >= 2
    /\ ByteAt(mem, 510) # 0
    /\ cpu.pc = 1024
    /\ cpu.sp = 255

\* C2: BRK at program counter P with stack pointer S completes and leaves
\* high(P+2) at 0x0100+S, low(P+2) below it, a status byte with bits 0x30
\* below that, the stack pointer at S-3, Interrupt-Disable set and the
\* program counter at the break vector.
C2_BrkSequence ==
    [][Ran("i00") =>
        LET P == cpu.pc
            S == cpu.sp
            R == (P + 2) % 65536
        IN  /\ ~panicked'
            /\ ByteAt(mem', 256 + S) = R \div 256
            /\ ByteAt(mem', 256 + ((S - 1) % 256)) = R % 256
            /\ BitAnd(ByteAt(mem', 256 + ((S - 2) % 256)), 48) = 48
            /\ cpu'.sp = (S - 3) % 256
            /\ BitAnd(cpu'.st, 4) = 4
            /\ cpu'.pc = LittleEndian(ByteAt(mem, 65534), ByteAt(mem, 65535))
            /\ (P = 1024 /\ cpu'.pc = 1280 /\ S = 255 =>
                    /\ ByteAt(mem', 509) \in {48, 52}
                    /\ ByteAt(mem', 510) = 2
                    /\ ByteAt(mem', 511) = 4)]_vars

\* C3: NOP from any state advances the program counter by exactly 1 and
\* leaves the stack pointer, the accumulator, X, Y, the flags and every
\* memory byte unchanged.
C3_NopFrame ==
    [][Ran("iea") =>
        /\ ~panicked'
        /\ cpu' = [cpu EXCEPT !.pc = (cpu.pc + 1) % 65536]
        /\ mem' = mem]_vars

\* C4: for every byte b and every stack pointer S, S = 0x00 included,
\* push_to_stack(b) immediately followed by pull_from_stack returns b and
\* leaves the stack pointer equal to S.
C4_PushPullInverse ==
    [][Ran("push_pull") =>
        /\ ~panicked'
        /\ ret' = arg'
        /\ cpu'.sp = cpu.sp]_vars

\* C5: push_to_stack(b) with stack pointer S writes b to 0x0100 + S and
\* then decrements the stack pointer modulo 256, for every S without
\* failure.
C5_PushWraps ==
    [][Ran("push_to_stack") =>
        /\ ~panicked'
        /\ ByteAt(mem', 256 + cpu.sp) = arg'
        /\ cpu'.sp = (cpu.sp - 1) % 256]_vars

\* C6: pull_from_stack with stack pointer S increments the stack pointer
\* modulo 256 and returns the byte at 0x0100 + the new stack pointer, for
\* every S without failure and without modifying memory.
C6_PullWraps ==
    [][Ran("pull_from_stack") =>
        /\ ~panicked'
        /\ cpu'.sp = (cpu.sp + 1) % 256
        /\ ret' = ByteAt(mem, 256 + cpu'.sp)
        /\ mem' = mem]_vars

\* C7: an opcode without implemented semantics advances the program
\* counter by its nominal length (1 to 3 bytes) and changes nothing else;
\* it is never a step that leaves the whole state unchanged.  (The
\* handlers return nothing and main inspects nothing, so the program has
\* no report of an unimplemented opcode that could stand in for it.)
C7_UnimplementedAdvances ==
    [][Ran("ixx") =>
        /\ ((cpu'.pc - cpu.pc) % 65536) \in 1..3
        /\ cpu' = [cpu EXCEPT !.pc = cpu'.pc]
        /\ mem' = mem]_vars

\* C8: in every state after the first reset, whatever steps and resets
\* followed, bit 0x20 (Unused) of the status register is 1.
C8_UnusedAlwaysSet == resets > 0 => BitAnd(cpu.st, 32) = 32

\* C8 witness: after a BRK and a later reset the unused bit is set, along
\* with the bits BRK added
C8_Witness ==
    /\ resets = 2
    /\ steps >= 1
    /\ BitAnd(cpu.st, 32) = 32
    /\ BitAnd(cpu.st, 20) = 20

\* C9: program-counter arithmetic wraps modulo 65536 and is never an
\* error: NOP at 0xFFFF leaves the program counter at 0x0000; BRK at
\* 0xFFFE or 0xFFFF pushes (P + 2) mod 65536 and loads the break vector.
C9_PcWraps ==
    [][/\ (Ran("iea") /\ cpu.pc = 65535 => ~panicked' /\ cpu'.pc = 0)
       /\ (Ran("i00") /\ cpu.pc >= 65534 =>
              /\ ~panicked'
              /\ ByteAt(mem', 256 + cpu.sp) = 0
              /\ ByteAt(mem', 256 + ((cpu.sp - 1) % 256)) = cpu.pc - 65534
              /\ cpu'.pc = LittleEndian(ByteAt(mem, 65534), ByteAt(mem, 65535)))]_vars

\* C10: every index of mem.mem used by reset, opcode fetch, BRK, push and
\* pull lies in 0..65535; vector reads use 0xFFFC..0xFFFF and stack
\* accesses 0x0100..0x01FF; the registers that form the indices stay in
\* their widths.
C10_AccessesInRange ==
    /\ cpu.pc \in Word
    /\ cpu.sp \in Byte
    /\ \A a \in accessed :
         /\ a[2] \in 0..(MEMSIZE - 1)
         /\ (a[1] = "vector" => a[2] \in 65532..65535)
         /\ (a[1] = "stack" => a[2] \in 256..511)

\* C10 witness: a BRK whose pushes wrap around the stack page, writing
\* 0x0100 first and 0x01FF next
C10_Witness ==
    /\ op = "i00"
    /\ ~panicked
    /\ <<"stack", 256>> \in accessed
    /\ <<"stack", 511>> \in accessed
    /\ <<"vector", 65535>> \in accessed

\* the memory still holds the start-up image of main: reset vector bytes
\* (0x00, 0x04), opcode 0xEA at 0x0400, break vector 0x0000
BuiltIn ==
    /\ ByteAt(mem, 65532) = 0
    /\ ByteAt(mem, 65533) = 4
    /\ ByteAt(mem, 1024) = 234
    /\ ByteAt(mem, 65534) = 0
    /\ ByteAt(mem, 65535) = 0

\* C11: the free run from the start-up image of main never aborts: after
\* the reset it executes NOP at 0x0400, BRK at 0x0401 and then BRK at
\* 0x0000 on every later step, and the BRK that finds the stack pointer at
\* 0x00 (the 86th) wraps it through 0xFF and the run goes on.
C11_FreeRunNeverAborts ==
    [][(BuiltIn /\ resets > 0 /\ vars' # vars) =>
        /\ ~panicked'
        /\ (cpu.pc = 1024 => op' = "iea" /\ cpu'.pc = 1025)
        /\ (cpu.pc = 1025 => op' = "i00" /\ cpu'.pc = 0)
        /\ (cpu.pc = 0 => op' = "i00" /\ cpu'.pc = 0)
        /\ (op' = "i00" => cpu'.sp = (cpu.sp - 3) % 256)
        /\ (op' = "i00" /\ cpu.sp = 0 => cpu'.sp = 253)]_vars

\* C12: BRK forces the Break bit (0x10) only in the status byte it pushes:
\* on the live status register a completed BRK adds Interrupt-Disable
\* (0x04) and nothing else, so a live Break bit that was clear stays
\* clear, and the Interrupt-Disable bit of the pushed byte is the one the
\* register had before BRK.
C12_BreakOnlyInPushedByte ==
    [][(Ran("i00") /\ ~panicked') =>
        LET pushed == ByteAt(mem', 256 + ((cpu.sp - 2) % 256))
        IN  /\ BitAnd(pushed, 16) = 16
            /\ BitAnd(pushed, 4) = BitAnd(cpu.st, 4)
            /\ cpu'.st = BitOr(cpu.st, 4)
            /\ BitAnd(cpu'.st, 16) = BitAnd(cpu.st, 16)]_vars

\* the program counter addresses a byte other than 0x00 and 0xEA
AtUnimplemented == resets > 0 /\ ByteAt(mem, cpu.pc) \notin {0, 234}

\* C13: once the program counter addresses a byte other than 0x00 or 0xEA,
\* every later step of the run loop dispatches to the placeholder handler
\* and leaves the program counter, the registers, the flags and memory
\* unchanged, so the program counter addresses the same opcode forever.
C13_StuckOnUnimplemented ==
    [][AtUnimplemented =>
        /\ AtUnimplemented'
        /\ cpu' = cpu
        /\ mem' = mem
        /\ ~panicked'
        /\ (vars' # vars => op' = "ixx")]_vars

\* C13 witness: the placeholder has run at 0x0500, reached through a BRK,
\* and the program counter still addresses the opcode 0x02 there
C13_Witness ==
    /\ op = "ixx"
    /\ AtUnimplemented
    /\ cpu.pc = 1280
    /\ cpu.sp = 252
    /\ ByteAt(mem, 1280) = 2

\* the addresses at which two memories differ
Changed(f, g) == {a \in (DOMAIN f) \cup (DOMAIN g) : ByteAt(f, a) # ByteAt(g, a)}

\* C14: no instruction step and no reset writes memory outside the stack
\* page 0x0100..0x01FF, so every byte outside it (the vectors and the
\* program bytes included) keeps the value the loader stored; a BRK
\* changes at most the three stack bytes it pushes and leaves the
\* accumulator, X and Y unchanged.
C14_WritesOnlyStackPage ==
    [][/\ Changed(mem, mem') \subseteq 256..511
       /\ (op' = "reset_cpu" => mem' = mem)
       /\ (Ran("i00") =>
              /\ Changed(mem, mem') \subseteq
                     {256 + cpu.sp, 256 + ((cpu.sp - 1) % 256), 256 + ((cpu.sp - 2) % 256)}
              /\ cpu'.ac = cpu.ac
              /\ cpu'.xr = cpu.xr
              /\ cpu'.yr = cpu.yr)]_vars

\* C14 witness: after two BRKs and a reset in between, the stack page
\* holds pushed bytes and the loader's bytes are where they were
C14_Witness ==
    /\ op = "i00"
    /\ resets = 2
    /\ steps >= 2
    /\ ~panicked
    /\ ByteAt(mem, 511) = 4
    /\ ByteAt(mem, 510) = 2
    /\ ByteAt(mem, 509) = 52
    /\ ByteAt(mem, 65533) = 4
    /\ ByteAt(mem, 65535) = 5

\* C16: reset_cpu changes only the stack pointer, the program counter and
\* the Unused status bit: the accumulator, X, Y, every other status bit
\* and all of memory, the stack page included, are as before the reset.
C16_ResetFrame ==
    [][Ran("reset_cpu") =>
        /\ cpu'.ac = cpu.ac
        /\ cpu'.xr = cpu.xr
        /\ cpu'.yr = cpu.yr
        /\ BitAnd(cpu'.st, 223) = BitAnd(cpu.st, 223)
        /\ mem' = mem]_vars

\* C16 witness: a reset after a BRK: Break and Interrupt-Disable are still
\* set in the status register and the pushed bytes still in the stack page
C16_Witness ==
    /\ op = "reset_cpu"
    /\ resets = 2
    /\ BitAnd(cpu.st, 20) = 20
    /\ cpu.sp = 255
    /\ ByteAt(mem, 511) # 0
    /\ ByteAt(mem, 509) # 0

====
